---- MODULE Spec2Model ----
(***************************************************************************)
(* Compliance decision pipeline: the Rule Store and its versioning, the    *)
(* Similarity Index side effects, the Violation Detector, the Enforcement  *)
(* Policy and the submission state machine.                                *)
(*                                                                         *)
(* Texts are TLA+ strings; Len, SubSeq and \o act on them character by     *)
(* character, so substring search, lower-casing and term extraction are    *)
(* computed the way the Python code computes them.                         *)
(***************************************************************************)
EXTENDS Integers, Sequences, FiniteSets, TLC

(***************************************************************************)
(* Bounds of the model.                                                    *)
(***************************************************************************)
MaxRules == 3
MaxIndexed == 2
MaxSubs == 1
MaxViolations == 2
MaxListLen == 2

(***************************************************************************)
(* Program constants.                                                      *)
(***************************************************************************)
ContextChars == 100
TopK == 3
SimilarityThreshold == 85
SnapshotChars == 500

(***************************************************************************)
(* String helpers (Python str methods).                                    *)
(***************************************************************************)
UpperAlpha == "ABCDEFGHIJKLMNOPQRSTUVWXYZ"
LowerAlpha == "abcdefghijklmnopqrstuvwxyz"

Char(s, i) == SubSeq(s, i, i)

\* str.lower() and str.upper() on one character
LowerMap ==
    [c \in {Char(UpperAlpha, i) : i \in 1..Len(UpperAlpha)} |->
        Char(LowerAlpha, CHOOSE i \in 1..Len(UpperAlpha) : Char(UpperAlpha, i) = c)]
UpperMap ==
    [c \in {Char(LowerAlpha, i) : i \in 1..Len(LowerAlpha)} |->
        Char(UpperAlpha, CHOOSE i \in 1..Len(LowerAlpha) : Char(LowerAlpha, i) = c)]

LowerChar(c) == IF c \in DOMAIN LowerMap THEN LowerMap[c] ELSE c

RECURSIVE Lower(_)
Lower(s) == IF s = "" THEN "" ELSE LowerChar(Char(s, 1)) \o Lower(SubSeq(s, 2, Len(s)))

UpperChar(c) == IF c \in DOMAIN UpperMap THEN UpperMap[c] ELSE c

RECURSIVE Upper(_)
Upper(s) == IF s = "" THEN "" ELSE UpperChar(Char(s, 1)) \o Upper(SubSeq(s, 2, Len(s)))

\* needle in hay
Contains(hay, needle) ==
    \E i \in 1..(Len(hay) - Len(needle) + 1) : SubSeq(hay, i, i + Len(needle) - 1) = needle

\* hay.find(needle): 0-based position of the first occurrence, -1 when absent
Find(hay, needle) ==
    IF Contains(hay, needle)
    THEN (CHOOSE i \in 1..(Len(hay) - Len(needle) + 1) :
             /\ SubSeq(hay, i, i + Len(needle) - 1) = needle
             /\ \A j \in 1..(i - 1) : SubSeq(hay, j, j + Len(needle) - 1) # needle) - 1
    ELSE -1

IsSpace(c) == c \in {" ", "\n", "\t", "\r"}

RECURSIVE LStripSet(_, _)
LStripSet(s, cs) ==
    IF s # "" /\ Char(s, 1) \in cs THEN LStripSet(SubSeq(s, 2, Len(s)), cs) ELSE s

RECURSIVE RStripSet(_, _)
RStripSet(s, cs) ==
    IF s # "" /\ Char(s, Len(s)) \in cs THEN RStripSet(SubSeq(s, 1, Len(s) - 1), cs) ELSE s

\* s.strip(chars)
StripSet(s, cs) == RStripSet(LStripSet(s, cs), cs)

\* s.strip()
Strip(s) == StripSet(s, {" ", "\n", "\t", "\r"})

\* s.split(sep), sep non-empty
RECURSIVE Split(_, _)
Split(s, sep) ==
    LET p == Find(s, sep)
    IN  IF p = -1 THEN <<s>>
        ELSE <<SubSeq(s, 1, p)>> \o Split(SubSeq(s, p + Len(sep) + 1, Len(s)), sep)

\* sep.join(parts)
RECURSIVE Join(_, _)
Join(parts, sep) ==
    IF parts = <<>> THEN ""
    ELSE IF Len(parts) = 1 THEN parts[1]
    ELSE parts[1] \o sep \o Join(Tail(parts), sep)

Min(a, b) == IF a < b THEN a ELSE b
Max(a, b) == IF a > b THEN a ELSE b


\* a NULL column
NULL == "NULL"

(***************************************************************************)
(* Rule texts and contents the model draws its inputs from.                *)
(***************************************************************************)
RuleProhibit == "must not \"dp\""
RuleRequire == "must include \"ba\""
RuleOther == "must not \"pa\""
RuleBlank == " "
RuleTexts == {RuleProhibit, RuleRequire, RuleOther}
RuleTextInputs == RuleTexts \cup {RuleBlank}
SeverityInputs == {"HARD", "soft", "urgent"}
Contents == {"xDPx", "ba"}

\* Rule texts that tell the detector's branches apart: two quoted terms under
\* prohibition and under obligation wording, no derivable term under either,
\* a list after "such as", and "such as" with nothing after it. Contents that
\* are empty, blank, and that hold every term.
RuleBoth == "must not \"dp\" \"x\""
RuleNeedBoth == "required \"ba\" \"dp\""
RuleNoTerms == "must not lie"
RuleNeedNoTerms == "must include facts"
RuleSuchAs == "prohibited such as dp, ba"
RuleSuchAsNothing == "must not such as"
TermRuleTexts ==
    {RuleBoth, RuleNeedBoth, RuleNoTerms, RuleNeedNoTerms, RuleSuchAs, RuleSuchAsNothing}
TermContents == {"", " ", "xDPx", "ba", "ba dp"}

(***************************************************************************)
(* Violation Detector (rule_engine.py).                                    *)
(***************************************************************************)
\* re.findall(r'"([^"]*)"', rule_text)
RECURSIVE QuotedTerms(_)
QuotedTerms(rule_text) ==
    LET p == Find(rule_text, "\"")
        rest == SubSeq(rule_text, p + 2, Len(rule_text))
        q == Find(rest, "\"")
    IN  IF p = -1 \/ q = -1 THEN <<>>
        ELSE <<SubSeq(rest, 1, q)>> \o QuotedTerms(SubSeq(rest, q + 2, Len(rest)))

ExtractProhibitedTerms(rule_text) ==
    LET quoted == QuotedTerms(rule_text)
        parts == Split(Lower(rule_text), "such as")
        terms == Split(parts[2], ",")
    IN  IF quoted # <<>> THEN quoted
        ELSE IF Contains(Lower(rule_text), "such as") /\ Len(parts) > 1
             THEN [i \in 1..Len(terms) |-> StripSet(Strip(terms[i]), {"\"", "'"})]
             ELSE <<>>

ExtractRequiredTerms(rule_text) == QuotedTerms(rule_text)

ExtractContext(content, term, context_chars) ==
    LET pos == Find(Lower(content), Lower(term))
        start == Max(0, pos - context_chars)
        end == Min(Len(content), pos + Len(term) + context_chars)
        context == SubSeq(content, start + 1, end)
    IN  IF pos = -1 THEN term
        ELSE (IF start > 0 THEN "..." ELSE "") \o context
             \o (IF end < Len(content) THEN "..." ELSE "")

\* for term in terms: if (term.lower() in content_lower) == found: the index
\* of the first such term, 0 when the loop ends without one
FirstTerm(content_lower, terms, found) ==
    LET Hit(i) == Contains(content_lower, Lower(terms[i])) = found
    IN  IF \E i \in 1..Len(terms) : Hit(i)
        THEN CHOOSE i \in 1..Len(terms) : Hit(i) /\ \A j \in 1..(i - 1) : ~Hit(j)
        ELSE 0

\* what _check_single_rule finds in content for a rule text: <<>> (None) or
\* <<[violated_text, context]>>
Finding(content, rule_text) ==
    LET content_lower == Lower(content)
        rule_text_lower == Lower(rule_text)
        prohibited_terms == ExtractProhibitedTerms(rule_text)
        required_terms == ExtractRequiredTerms(rule_text)
        ip == FirstTerm(content_lower, prohibited_terms, TRUE)
        ir == FirstTerm(content_lower, required_terms, FALSE)
    IN  IF Contains(rule_text_lower, "must not") \/ Contains(rule_text_lower, "prohibited")
        THEN IF ip # 0
             THEN <<[violated_text |-> ExtractContext(content, prohibited_terms[ip], ContextChars),
                     context |-> "Prohibited term '" \o prohibited_terms[ip] \o "' found in content"]>>
             ELSE <<>>
        ELSE IF Contains(rule_text_lower, "must include") \/ Contains(rule_text_lower, "required")
        THEN IF ir # 0
             THEN <<[violated_text |-> "",
                     context |-> "Required term '" \o required_terms[ir] \o "' missing from content"]>>
             ELSE <<>>
        ELSE <<>>

\* Finding over the texts of the model, computed once
FindingTable ==
    [content \in Contents \cup TermContents, rule_text \in RuleTexts \cup TermRuleTexts |->
        Finding(content, rule_text)]

\* the violation dict built from a finding, None when there is none
ViolationDict(rule, found) ==
    IF found = <<>> THEN <<>>
    ELSE <<[rule_id |-> rule.id,
            rule_text |-> rule.rule_text,
            severity |-> rule.severity,
            violated_text |-> found[1].violated_text,
            context |-> found[1].context]>>

\* a detector that reports every prohibited term it finds, not the first only
CheckEveryTerm(content, rule) ==
    LET terms == ExtractProhibitedTerms(rule.rule_text)
        hits == {i \in 1..Len(terms) : Contains(Lower(content), Lower(terms[i]))}
        Nth(k) == CHOOSE i \in hits : Cardinality({j \in hits : j < i}) = k - 1
    IN  IF Contains(Lower(rule.rule_text), "must not") \/ Contains(Lower(rule.rule_text), "prohibited")
        THEN [k \in 1..Cardinality(hits) |->
                 [rule_id |-> rule.id,
                  rule_text |-> rule.rule_text,
                  severity |-> rule.severity,
                  violated_text |-> ExtractContext(content, terms[Nth(k)], ContextChars),
                  context |-> "Prohibited term '" \o terms[Nth(k)] \o "' found in content"]]
        ELSE ViolationDict(rule, FindingTable[content, rule.rule_text])

\* rule is a Rule row; the result is <<>> (None) or <<violation>>
CheckSingleRule(content, rule) == ViolationDict(rule, FindingTable[content, rule.rule_text])

\* loaded: the Rule rows get_active_rules returned, in the order it returned them
RECURSIVE CheckViolations(_, _)
CheckViolations(content, loaded) ==
    IF loaded = <<>> THEN <<>>
    ELSE CheckSingleRule(content, Head(loaded)) \o CheckViolations(content, Tail(loaded))

(***************************************************************************)
(* Enforcement Policy (rule_engine.py).                                    *)
(***************************************************************************)
IsHard(v) == v.severity = "hard"
IsSoft(v) == v.severity = "soft"

ReasonLine(v) == "- " \o v.rule_text \o ": " \o v.context

\* enforce_hard_rules, were it to block on a violation of any severity
EnforceAnyViolation(content, violations) ==
    IF violations # <<>>
    THEN [is_approved |-> FALSE,
          reason |-> "Content BLOCKED due to HARD rule violations:\n"
                     \o Join([i \in 1..Len(violations) |-> ReasonLine(violations[i])], "\n")]
    ELSE [is_approved |-> TRUE, reason |-> "No HARD rule violations"]

EnforceHardRules(content, violations) ==
    LET hard_violations == SelectSeq(violations, IsHard)
        reasons == [i \in 1..Len(hard_violations) |-> ReasonLine(hard_violations[i])]
    IN  IF hard_violations # <<>>
        THEN [is_approved |-> FALSE,
              reason |-> "Content BLOCKED due to HARD rule violations:\n" \o Join(reasons, "\n")]
        ELSE [is_approved |-> TRUE, reason |-> "No HARD rule violations"]

AnnotateSoftRules(violations) ==
    LET soft_violations == SelectSeq(violations, IsSoft)
        lines == [i \in 1..Len(soft_violations) |-> ReasonLine(soft_violations[i])]
    IN  IF soft_violations = <<>> THEN "No SOFT rule violations"
        ELSE Join(<<"SOFT RULE VIOLATIONS (Content approved with warnings):">> \o lines, "\n")


(***************************************************************************)
(* State.                                                                  *)
(*   rules, submissions, violations: the committed rows of the relational  *)
(*     store, in primary-key order (a row's id is its position);           *)
(*   index: the Similarity Index, one record per stored vector;            *)
(*   embedding_service: the embedder.py singleton;                         *)
(*   resp: what the last request handed back to its caller;                *)
(*   io: what the external collaborators did during the last request (the  *)
(*     generator, the reviewer, the commits of a check, the similarity     *)
(*     query of a create);                                                 *)
(*   replay: the outcomes of the last compliance check re-run from the     *)
(*     same store state under every advisory opinion;                      *)
(*   call: the last direct call of a function of the rule engine, its      *)
(*     arguments and what it returned;                                     *)
(*   sessions: the database session of each editor whose revise request    *)
(*     is in flight, with the changes it has not committed yet.            *)
(***************************************************************************)
VARIABLES rules, index, embedding_service, submissions, violations, resp, io, replay,
          call, sessions

storeVars == <<rules, index, embedding_service>>
pipeVars == <<submissions, violations>>
vars == <<rules, index, embedding_service, submissions, violations, resp, io, replay,
          call, sessions>>

NoCall == [fn |-> "none"]
Editors == {"editor_a", "editor_b"}
IdleSession == [pc |-> "idle", rule_id |-> 0, rule_text |-> "", old_rule |-> NULL]

\* id: the row the response names (the new rule of a create or revise);
\* old_rule_id: the "old_rule_id" of a revise response;
\* result: what check_compliance returned during the request
NoResp ==
    [op |-> "none", code |-> 0, status |-> "none", id |-> 0, old_rule_id |-> 0,
     text |-> "", severity |-> "", result |-> NULL]
NoIo ==
    [generator |-> "not_called", load |-> "not_called", evaluated |-> {}, rules_for_ai |-> {},
     reviewer |-> "not_called", store |-> "not_called", update |-> "not_called",
     query |-> "not_called"]

Response(op, code, status, id, text) ==
    [op |-> op, code |-> code, status |-> status, id |-> id, old_rule_id |-> 0,
     text |-> text, severity |-> "", result |-> NULL]

\* the answer to a create or force-create request, with the severity the
\* request asked for (RuleCreate.severity) beside its rule_text
CreateResponse(op, code, status, id, text, severity_in) ==
    [Response(op, code, status, id, text) EXCEPT !.severity = severity_in]

Init ==
    /\ rules = <<>>
    /\ index = {}
    /\ embedding_service = "none"
    /\ submissions = <<>>
    /\ violations = <<>>
    /\ resp = NoResp
    /\ io = NoIo
    /\ replay = {}
    /\ call = NoCall
    /\ sessions = [e \in Editors |-> IdleSession]

(***************************************************************************)
(* Similarity Index (embedder.py). A stored vector is represented by the   *)
(* text it was computed from: the embedding is a function of the text.     *)
(***************************************************************************)
\* generate_embedding derives the vector from sha256(text) alone. The cosine
\* of the vectors of two texts, in percent: 100 for RuleProhibit and
\* RuleRequire, whose digests are dominated by the same component, and 0 for
\* RuleOther against either.
SimilarTexts == {{RuleProhibit, RuleRequire}}
Score(text_a, text_b) ==
    IF text_a = text_b \/ {text_a, text_b} \in SimilarTexts THEN 100 ELSE 0

\* get_embedding_service(): the singleton once built, else a construction that
\* may raise; the result is the new singleton state, "none" when it raised
GetEmbeddingService(service, construct_ok) ==
    IF service = "ready" \/ construct_ok THEN "ready" ELSE "none"

StoreRuleEmbedding(idx, rule_id, rule_text, ok) ==
    IF ok
    THEN {e \in idx : e.rule_id # rule_id}
         \cup {[rule_id |-> rule_id, rule_text |-> SubSeq(rule_text, 1, Min(Len(rule_text), SnapshotChars))]}
    ELSE idx

DeleteRuleEmbedding(idx, rule_id, ok) ==
    IF ok THEN {e \in idx : e.rule_id # rule_id} ELSE idx

\* the matches among the top_k nearest vectors that reach the threshold;
\* [] when the query fails
FindSimilarRules(idx, text, top_k, similarity_threshold, ok) ==
    LET Nearer(e) == {f \in idx : Score(text, f.rule_text) > Score(text, e.rule_text)}
    IN  IF ok
        THEN {e \in idx : /\ Cardinality(Nearer(e)) < top_k
                          /\ Score(text, e.rule_text) >= similarity_threshold}
        ELSE {}

(***************************************************************************)
(* Rule Store (api/routes/super_admin.py).                                 *)
(***************************************************************************)
\* not rule_text or not rule_text.strip()
BlankText(text) == text = "" \/ Strip(text) = ""

\* BlankText over the texts of the model, computed once
BlankTable == [text \in RuleTextInputs |-> BlankText(text)]

IsBlankText(text) == IF text \in DOMAIN BlankTable THEN BlankTable[text] ELSE BlankText(text)

\* RuleSeverity.HARD if severity.lower() == "hard" else RuleSeverity.SOFT
SeverityOf(severity_in) == IF Lower(severity_in) = "hard" THEN "hard" ELSE "soft"

\* SeverityOf over the severity inputs of the model, computed once
SeverityTable == [severity_in \in SeverityInputs |-> SeverityOf(severity_in)]

ParseSeverity(severity_in) ==
    IF severity_in \in DOMAIN SeverityTable THEN SeverityTable[severity_in]
    ELSE SeverityOf(severity_in)

\* the duplicate query, were it to leave out the is_active filter
ExistsAnyText(rs, text) ==
    \E i \in 1..Len(rs) : rs[i].rule_text = text

\* db.query(Rule).filter(rule_text == text, is_active == True).first() is not None
ExistsActiveText(rs, text) ==
    \E i \in 1..Len(rs) : rs[i].rule_text = text /\ rs[i].is_active

NewRule(rs, text, severity, version, parent) ==
    [id |-> Len(rs) + 1, rule_text |-> text, severity |-> severity,
     is_active |-> TRUE, version |-> version, parent_rule_id |-> parent]

CreateRule(text, severity_in, construct_ok, query_ok, store_ok) ==
    LET service == GetEmbeddingService(embedding_service, construct_ok)
        similar_rules == FindSimilarRules(index, text, TopK, SimilarityThreshold, query_ok)
        new_rule == NewRule(rules, text, ParseSeverity(severity_in), 1, 0)
        queried == [NoIo EXCEPT !.query = IF query_ok THEN "ok" ELSE "failed"]
    IN  /\ UNCHANGED pipeVars
        /\ UNCHANGED <<call, sessions>>
        /\ replay' = {}
        /\ IF IsBlankText(text)
           THEN /\ resp' = CreateResponse("create_rule", 400, "validation_error", 0, text, severity_in)
                /\ io' = NoIo
                /\ UNCHANGED storeVars
           ELSE IF ExistsActiveText(rules, text)
           THEN /\ resp' = CreateResponse("create_rule", 400, "duplicate_error", 0, text, severity_in)
                /\ io' = NoIo
                /\ UNCHANGED storeVars
           ELSE IF service = "none"
           THEN /\ resp' = CreateResponse("create_rule", 500, "error", 0, text, severity_in)
                /\ io' = NoIo
                /\ UNCHANGED storeVars
           ELSE IF similar_rules # {}
           THEN /\ resp' = CreateResponse("create_rule", 200, "warning", 0, text, severity_in)
                /\ io' = queried
                /\ embedding_service' = service
                /\ UNCHANGED <<rules, index>>
           ELSE /\ Len(rules) < MaxRules
                /\ io' = queried
                /\ rules' = Append(rules, new_rule)
                /\ embedding_service' = service
                /\ index' = StoreRuleEmbedding(index, new_rule.id, new_rule.rule_text, store_ok)
                /\ resp' = CreateResponse("create_rule", 200, "success", new_rule.id, text, severity_in)

\* force_create_rule, were it to run the similarity gate of create_rule
ForceCreateGated(text, severity_in, construct_ok, store_ok) ==
    LET service == GetEmbeddingService(embedding_service, construct_ok)
        similar_rules == FindSimilarRules(index, text, TopK, SimilarityThreshold, TRUE)
        new_rule == NewRule(rules, text, ParseSeverity(severity_in), 1, 0)
    IN  /\ UNCHANGED pipeVars
        /\ UNCHANGED <<call, sessions>>
        /\ io' = NoIo
        /\ replay' = {}
        /\ IF IsBlankText(text)
           THEN /\ resp' = CreateResponse("force_create_rule", 400, "validation_error", 0, text, severity_in)
                /\ UNCHANGED storeVars
           ELSE IF ExistsActiveText(rules, text)
           THEN /\ resp' = CreateResponse("force_create_rule", 400, "duplicate_error", 0, text, severity_in)
                /\ UNCHANGED storeVars
           ELSE IF similar_rules # {}
           THEN /\ resp' = CreateResponse("force_create_rule", 200, "warning", 0, text, severity_in)
                /\ UNCHANGED storeVars
           ELSE /\ Len(rules) < MaxRules
                /\ rules' = Append(rules, new_rule)
                /\ embedding_service' = service
                /\ IF service = "none"
                   THEN /\ resp' = CreateResponse("force_create_rule", 500, "error", 0, text, severity_in)
                        /\ UNCHANGED index
                   ELSE /\ index' = StoreRuleEmbedding(index, new_rule.id, new_rule.rule_text, store_ok)
                        /\ resp' = CreateResponse("force_create_rule", 200, "success", new_rule.id, text, severity_in)

ForceCreateRule(text, severity_in, construct_ok, store_ok) ==
    LET service == GetEmbeddingService(embedding_service, construct_ok)
        new_rule == NewRule(rules, text, ParseSeverity(severity_in), 1, 0)
    IN  /\ UNCHANGED pipeVars
        /\ UNCHANGED <<call, sessions>>
        /\ io' = NoIo
        /\ replay' = {}
        /\ IF IsBlankText(text)
           THEN /\ resp' = CreateResponse("force_create_rule", 400, "validation_error", 0, text, severity_in)
                /\ UNCHANGED storeVars
           ELSE IF ExistsActiveText(rules, text)
           THEN /\ resp' = CreateResponse("force_create_rule", 400, "duplicate_error", 0, text, severity_in)
                /\ UNCHANGED storeVars
           ELSE /\ Len(rules) < MaxRules
                /\ rules' = Append(rules, new_rule)
                /\ embedding_service' = service
                /\ IF service = "none"
                   THEN /\ resp' = CreateResponse("force_create_rule", 500, "error", 0, text, severity_in)
                        /\ UNCHANGED index
                   ELSE /\ index' = StoreRuleEmbedding(index, new_rule.id, new_rule.rule_text, store_ok)
                        /\ resp' = CreateResponse("force_create_rule", 200, "success", new_rule.id, text, severity_in)

\* a revise, were the new row to restart at version 1 with the default severity
RevisedAsNew(rs, rule_id, text, old_rule) ==
    Append([rs EXCEPT ![rule_id].is_active = FALSE], NewRule(rs, text, "soft", 1, rule_id))

\* the rows a revise commits: the old version deactivated and the new version
\* inserted, in one commit
Revised(rs, rule_id, text, old_rule) ==
    Append([rs EXCEPT ![rule_id].is_active = FALSE],
           NewRule(rs, text, old_rule.severity, old_rule.version + 1, rule_id))

UpdateRule(rule_id, text, construct_ok, delete_ok, store_ok) ==
    LET service == GetEmbeddingService(embedding_service, construct_ok)
        old_rule == rules[rule_id]
        committed == Revised(rules, rule_id, text, old_rule)
        new_rule == committed[Len(committed)]
    IN  /\ UNCHANGED pipeVars
        /\ UNCHANGED <<call, sessions>>
        /\ io' = NoIo
        /\ replay' = {}
        /\ IF IsBlankText(text)
           THEN /\ resp' = Response("update_rule", 400, "validation_error", rule_id, text)
                /\ UNCHANGED storeVars
           ELSE IF rule_id \notin 1..Len(rules)
           THEN /\ resp' = Response("update_rule", 404, "not_found", rule_id, text)
                /\ UNCHANGED storeVars
           ELSE /\ Len(rules) < MaxRules
                /\ rules' = committed
                /\ embedding_service' = service
                /\ IF service = "none"
                   THEN /\ resp' = Response("update_rule", 500, "error", rule_id, text)
                        /\ UNCHANGED index
                   ELSE /\ index' = StoreRuleEmbedding(
                                        DeleteRuleEmbedding(index, rule_id, delete_ok),
                                        new_rule.id, new_rule.rule_text, store_ok)
                        /\ resp' = [Response("update_rule", 200, "success", new_rule.id, text)
                                        EXCEPT !.old_rule_id = rule_id]

DeactivateRule(rule_id, construct_ok, delete_ok) ==
    LET service == GetEmbeddingService(embedding_service, construct_ok)
    IN  /\ UNCHANGED pipeVars
        /\ UNCHANGED <<call, sessions>>
        /\ io' = NoIo
        /\ replay' = {}
        /\ IF rule_id \notin 1..Len(rules)
           THEN /\ resp' = Response("deactivate_rule", 404, "not_found", rule_id, "")
                /\ UNCHANGED storeVars
           ELSE /\ rules' = [rules EXCEPT ![rule_id].is_active = FALSE]
                /\ embedding_service' = service
                /\ IF service = "none"
                   THEN /\ resp' = Response("deactivate_rule", 500, "error", rule_id, "")
                        /\ UNCHANGED index
                   ELSE /\ index' = DeleteRuleEmbedding(index, rule_id, delete_ok)
                        /\ resp' = Response("deactivate_rule", 200, "success", rule_id, "")

(***************************************************************************)
(* Advisory Reviewer Adapter (reviewer.py). The reviewer's answer is an    *)
(* input: it raises, or returns a review text that _parse_review parses.   *)
(***************************************************************************)
ReviewNone == "VIOLATIONS:\nNONE\n\nRECOMMENDATIONS:\nok"
ReviewFlagged == "VIOLATIONS:\nRule 1: bad\n\nRECOMMENDATIONS:\nfix"
ReviewerOutcomes == {"raise", ReviewNone, ReviewFlagged}

StartsWith(s, prefix) == Len(s) >= Len(prefix) /\ SubSeq(s, 1, Len(prefix)) = prefix

ParseReview(review_text) ==
    LET sections == Split(review_text, "RECOMMENDATIONS:")
        violations_section == sections[1]
        violations_text == Strip(Split(violations_section, "VIOLATIONS:")[2])
        split_lines == Split(violations_text, "\n")
        NonBlank(l) == Strip(l) # ""
        stripped == SelectSeq([i \in 1..Len(split_lines) |-> Strip(split_lines[i])], NonBlank)
        Kept(l) == l # "" /\ ~StartsWith(l, "RECOMMENDATIONS")
        kept == SelectSeq(stripped, Kept)
        parsed == IF /\ Len(sections) >= 2
                     /\ Contains(violations_section, "VIOLATIONS:")
                     /\ Upper(violations_text) # "NONE"
                     /\ Strip(violations_text) # ""
                  THEN [i \in 1..Len(kept) |-> [description |-> kept[i], source |-> "groq_review"]]
                  ELSE <<>>
    IN  [violations |-> parsed,
         recommendations |-> IF Len(sections) >= 2 THEN Strip(sections[2]) ELSE "",
         raw_review |-> review_text]

\* ParseReview over the review texts of the model, computed once
ParseTable == [review_text \in ReviewerOutcomes \ {"raise"} |-> ParseReview(review_text)]

PlaceholderReview == [violations |-> <<>>, recommendations |-> "AI review unavailable"]

\* the review, were the reviewer's failure handed on unreplaced
AiReviewUnguarded(review) ==
    IF review = "raise" THEN ParseReview(review) ELSE ParseTable[review]

\* review_compliance() inside the orchestrator's try/except
AiReview(review) ==
    IF review = "raise" THEN PlaceholderReview ELSE ParseTable[review]

(***************************************************************************)
(* Compliance Orchestrator (compliance_checker.py).                        *)
(***************************************************************************)
RECURSIVE Orderings(_)
Orderings(S) ==
    IF S = {} THEN {<<>>}
    ELSE UNION {{<<x>> \o p : p \in Orderings(S \ {x})} : x \in S}

ActiveIds(rs) == {i \in 1..Len(rs) : rs[i].is_active}

\* get_active_rules(): the active rows in the order the store returns them
\* (the query has no ORDER BY), [] when the query raises
GetActiveRules(rs, order, ok) ==
    IF ok THEN [i \in 1..Len(order) |-> rs[order[i]]] ELSE <<>>

ViolationRow(submission_id, v) ==
    [submission_id |-> submission_id, rule_id |-> v.rule_id,
     violated_text |-> v.violated_text, severity |-> v.severity, context |-> v.context]

\* _store_violations, were each row committed as it is added and the failure
\* to strike after the first
StoreRowByRow(viols, submission_id, found, ok) ==
    IF ok \/ found = <<>>
    THEN viols \o [i \in 1..Len(found) |-> ViolationRow(submission_id, found[i])]
    ELSE Append(viols, ViolationRow(submission_id, found[1]))

\* _store_violations, were the rows a submission already has replaced
StoreReplacing(viols, submission_id, found, ok) ==
    IF ok
    THEN SelectSeq(viols, LAMBDA row : row.submission_id # submission_id)
         \o [i \in 1..Len(found) |-> ViolationRow(submission_id, found[i])]
    ELSE viols

\* one batched commit; a failure is rolled back and swallowed
StoreViolations(viols, submission_id, found, ok) ==
    IF ok THEN viols \o [i \in 1..Len(found) |-> ViolationRow(submission_id, found[i])]
    ELSE viols

\* a failure is rolled back and swallowed
UpdateSubmissionStatus(subs, submission_id, is_approved, generated_content, ok) ==
    IF ok /\ submission_id \in 1..Len(subs)
    THEN [subs EXCEPT ![submission_id] =
              [@ EXCEPT !.status = IF is_approved THEN "approved" ELSE "rejected",
                        !.compliance_status = IF is_approved THEN "approved" ELSE "rejected",
                        !.generated_content = generated_content,
                        !.completed_at = "set"]]
    ELSE subs

\* steps 4 to 8 of check_compliance, were a flagged advisory review to block
\* approval
ConcludeAdvised(subs, viols, submission_id, generated_content, rule_violations, ai_review, store_ok, update_ok) ==
    LET enforced == EnforceHardRules(generated_content, rule_violations)
        decision == IF ai_review.violations # <<>> /\ enforced.is_approved
                    THEN [is_approved |-> FALSE, reason |-> "Content BLOCKED by AI review"]
                    ELSE enforced
    IN  [result |->
             [submission_id |-> submission_id,
              is_approved |-> decision.is_approved,
              compliance_status |-> IF decision.is_approved THEN "approved" ELSE "rejected",
              decision_reason |-> decision.reason,
              rule_violations |-> rule_violations,
              ai_review |-> ai_review,
              soft_annotations |-> AnnotateSoftRules(rule_violations),
              total_violations |-> Len(rule_violations),
              hard_violations |-> Len(SelectSeq(rule_violations, IsHard)),
              soft_violations |-> Len(SelectSeq(rule_violations, IsSoft))],
         violations |-> StoreViolations(viols, submission_id, rule_violations, store_ok),
         submissions |-> UpdateSubmissionStatus(subs, submission_id, decision.is_approved,
                                                generated_content, update_ok)]

\* steps 4 to 8 of check_compliance: the decision from the detector's
\* violations, the rows written, and the result handed back
Conclude(subs, viols, submission_id, generated_content, rule_violations, ai_review, store_ok, update_ok) ==
    LET decision == EnforceHardRules(generated_content, rule_violations)
    IN  [result |->
             [submission_id |-> submission_id,
              is_approved |-> decision.is_approved,
              compliance_status |-> IF decision.is_approved THEN "approved" ELSE "rejected",
              decision_reason |-> decision.reason,
              rule_violations |-> rule_violations,
              ai_review |-> ai_review,
              soft_annotations |-> AnnotateSoftRules(rule_violations),
              total_violations |-> Len(rule_violations),
              hard_violations |-> Len(SelectSeq(rule_violations, IsHard)),
              soft_violations |-> Len(SelectSeq(rule_violations, IsSoft))],
         violations |-> StoreViolations(viols, submission_id, rule_violations, store_ok),
         submissions |-> UpdateSubmissionStatus(subs, submission_id, decision.is_approved,
                                                generated_content, update_ok)]

\* check_compliance: the result handed back and the rows it leaves
CheckCompliance(subs, viols, submission_id, generated_content, loaded, review, store_ok, update_ok) ==
    Conclude(subs, viols, submission_id, generated_content,
             CheckViolations(generated_content, loaded), AiReview(review), store_ok, update_ok)

\* what of a check's outcome the advisory opinion must not influence
Authoritative(outcome, submission_id) ==
    [is_approved |-> outcome.result.is_approved,
     decision_reason |-> outcome.result.decision_reason,
     rule_violations |-> outcome.result.rule_violations,
     violations |-> outcome.violations,
     submission |-> outcome.submissions[submission_id]]

NewSubmission(subs) ==
    [id |-> Len(subs) + 1, status |-> "processing", generated_content |-> NULL,
     compliance_status |-> NULL, completed_at |-> NULL]

\* the generator's failure, were the status left as it was
MarkNothing(subs, submission_id) == subs

\* submission.status = SubmissionStatus.FAILED; db.commit()
MarkFailed(subs, submission_id) == [subs EXCEPT ![submission_id].status = "failed"]

\* rules_for_ai: what check_compliance builds from its own load of the active
\* rules (step 2) and hands to the reviewer
RulesForAi(active_rules) ==
    {[rule_text |-> active_rules[i].rule_text, severity |-> active_rules[i].severity,
      id |-> active_rules[i].id] : i \in 1..Len(active_rules)}

\* what the collaborators did for a check: the query of the detector's rule
\* load and the ids of the rules the detector evaluated, the rules handed to
\* the reviewer, the reviewer, the commit of the violation rows and the commit
\* of the status update
CheckIo(generator, load_ok, loaded, active_rules, review, store_ok, update_ok) ==
    [generator |-> generator,
     load |-> IF load_ok THEN "ok" ELSE "failed",
     evaluated |-> {loaded[i].id : i \in 1..Len(loaded)},
     rules_for_ai |-> RulesForAi(active_rules),
     reviewer |-> IF review = "raise" THEN "raised" ELSE "ok",
     store |-> IF store_ok THEN "ok" ELSE "failed",
     update |-> IF update_ok THEN "ok" ELSE "failed",
     query |-> "not_called"]

\* what a finished check leaves: the rows, the response and the replay
Checked(response, io_after, outcome, reruns) ==
    /\ Len(outcome.violations) <= MaxViolations
    /\ submissions' = outcome.submissions
    /\ violations' = outcome.violations
    /\ resp' = [response EXCEPT !.result = outcome.result]
    /\ io' = io_after
    /\ replay' = reruns

(***************************************************************************)
(* POST /generate (api/routes/agent.py). before_ok: the steps before the   *)
(* generator (web search, file parsing, prompt enhancement, chunking) did  *)
(* not raise; generated: the generator's text, or "raise"; after_ok: the   *)
(* chunking of the generated text did not raise; audit_ok: the audit row   *)
(* written after the check was committed.                                  *)
(***************************************************************************)
\* generate_compliant_content from the web search on (lines 56-189), for the
\* submission row it has committed: subs are the submission rows with that row
ProcessSubmission(subs, submission_id, before_ok, generated, after_ok, order, load_ok, reload_ok, review, store_ok, update_ok, audit_ok) ==
    LET loaded == GetActiveRules(rules, order, load_ok)
        active_rules == GetActiveRules(rules, order, reload_ok)
    IN  /\ UNCHANGED storeVars
        /\ IF ~before_ok
           THEN /\ submissions' = subs
                /\ resp' = Response("generate", 500, "error", submission_id, "")
                /\ io' = NoIo
                /\ replay' = {}
                /\ UNCHANGED violations
           ELSE IF generated = "raise"
           THEN /\ submissions' = MarkFailed(subs, submission_id)
                /\ resp' = Response("generate", 500, "generation_failed", submission_id, "")
                /\ io' = [NoIo EXCEPT !.generator = "raised"]
                /\ replay' = {}
                /\ UNCHANGED violations
           ELSE IF ~after_ok
           THEN /\ submissions' = subs
                /\ resp' = Response("generate", 500, "error", submission_id, "")
                /\ io' = [NoIo EXCEPT !.generator = "ok"]
                /\ replay' = {}
                /\ UNCHANGED violations
           ELSE Checked(IF audit_ok
                        THEN Response("generate", 200, "success", submission_id, generated)
                        ELSE Response("generate", 500, "error", submission_id, generated),
                        CheckIo("ok", load_ok, loaded, active_rules, review, store_ok, update_ok),
                        CheckCompliance(subs, violations, submission_id, generated, loaded,
                                        review, store_ok, update_ok),
                        {Authoritative(CheckCompliance(subs, violations, submission_id,
                                                       generated, loaded, review2, store_ok,
                                                       update_ok), submission_id) :
                            review2 \in ReviewerOutcomes})

GenerateCompliantContent(before_ok, generated, after_ok, order, load_ok, reload_ok, review, store_ok, update_ok, audit_ok) ==
    /\ Len(submissions) < MaxSubs
    /\ UNCHANGED <<call, sessions>>
    /\ ProcessSubmission(Append(submissions, NewSubmission(submissions)), Len(submissions) + 1,
                         before_ok, generated, after_ok, order, load_ok, reload_ok, review,
                         store_ok, update_ok, audit_ok)

(***************************************************************************)
(* check_content_compliance called again for a submission that a generate  *)
(* request has already checked (a replay of the check on its stored text). *)
(***************************************************************************)
CheckContentCompliance(submission_id, generated_content, order, load_ok, reload_ok, review, store_ok, update_ok) ==
    LET loaded == GetActiveRules(rules, order, load_ok)
        active_rules == GetActiveRules(rules, order, reload_ok)
    IN  /\ submission_id \in 1..Len(submissions)
        /\ submissions[submission_id].status \in {"approved", "rejected"}
        /\ UNCHANGED storeVars
        /\ UNCHANGED <<call, sessions>>
        /\ Checked(Response("check", 200, "success", submission_id, generated_content),
                   CheckIo("not_called", load_ok, loaded, active_rules, review, store_ok,
                           update_ok),
                   CheckCompliance(submissions, violations, submission_id, generated_content,
                                   loaded, review, store_ok, update_ok),
                   {Authoritative(CheckCompliance(submissions, violations, submission_id,
                                                  generated_content, loaded, review2, store_ok,
                                                  update_ok), submission_id) :
                       review2 \in ReviewerOutcomes})

\* the values an input takes: both when the handler reads it, one otherwise
Either(relevant) == IF relevant THEN BOOLEAN ELSE {TRUE}

\* the outcomes of the second query for the active rules (check_compliance,
\* step 2): it runs in the session of the first, so it fails when the first
\* failed (the failed transaction was not rolled back), and it may fail on
\* its own. Generate and Recheck give both queries of a check one outcome;
\* Work, below, lets the second fail on its own.
Reloads(checked, load_ok) ==
    IF load_ok THEN Either(checked /\ ActiveIds(rules) # {}) ELSE {FALSE}

RuleIdInputs == 1..(Len(rules) + 1)
Unbuilt == embedding_service = "none"

(***************************************************************************)
(* The Rule Store with every outcome of the Similarity Index: the index    *)
(* client may fail to build, and each query, store and delete may fail.    *)
(***************************************************************************)
\* the texts the index scores as similar, and a blank one
IndexedTextInputs == {RuleProhibit, RuleRequire, RuleBlank}

Create ==
    \E text \in IndexedTextInputs, severity_in \in SeverityInputs :
        \E construct_ok \in Either(Unbuilt), query_ok \in Either(index # {}), store_ok \in BOOLEAN :
            /\ CreateRule(text, severity_in, construct_ok, query_ok, store_ok)
            /\ Len(rules') <= MaxIndexed
ForceCreate ==
    \E text \in IndexedTextInputs, severity_in \in SeverityInputs :
        \E construct_ok \in Either(Unbuilt), store_ok \in BOOLEAN :
            /\ ForceCreateRule(text, severity_in, construct_ok, store_ok)
            /\ Len(rules') <= MaxIndexed
Revise ==
    \E rule_id \in RuleIdInputs, text \in IndexedTextInputs :
        \E construct_ok \in Either(Unbuilt), delete_ok \in Either(index # {}), store_ok \in BOOLEAN :
            /\ UpdateRule(rule_id, text, construct_ok, delete_ok, store_ok)
            /\ Len(rules') <= MaxIndexed
Deactivate ==
    \E rule_id \in RuleIdInputs :
        \E construct_ok \in Either(Unbuilt), delete_ok \in Either(index # {}) :
            DeactivateRule(rule_id, construct_ok, delete_ok)

NextStore == Create \/ ForceCreate \/ Revise \/ Deactivate
SpecStore == Init /\ [][NextStore]_vars

(***************************************************************************)
(* The Rule Store's versioning while the Similarity Index is healthy:      *)
(* rules are authored, edited and retired.                                 *)
(***************************************************************************)
AuthorRule ==
    \E text \in RuleTextInputs, severity_in \in SeverityInputs :
        ForceCreateRule(text, severity_in, TRUE, TRUE)
EditRule ==
    \E rule_id \in RuleIdInputs, text \in RuleTextInputs :
        UpdateRule(rule_id, text, TRUE, TRUE, TRUE)
RetireRule == \E rule_id \in RuleIdInputs : DeactivateRule(rule_id, TRUE, TRUE)

NextVersions == AuthorRule \/ EditRule \/ RetireRule
SpecVersions == Init /\ [][NextVersions]_vars

(***************************************************************************)
(* The pipeline beside the Rule Store. The store starts as its authors     *)
(* left it: the rule texts of the model force-created in turn, each HARD   *)
(* or SOFT, each still active or since deactivated, the index healthy.     *)
(* While submissions are generated and checked under every collaborator    *)
(* outcome, rules are retired.                                             *)
(***************************************************************************)
SeededRules ==
    {<<[NewRule(<<>>, RuleProhibit, s1, 1, 0) EXCEPT !.is_active = a1],
       [NewRule(<<1>>, RuleRequire, s2, 1, 0) EXCEPT !.is_active = a2]>> :
        s1 \in {"hard", "soft"}, s2 \in {"hard", "soft"}, a1 \in BOOLEAN, a2 \in BOOLEAN}

InitPipeline ==
    /\ rules \in SeededRules
    /\ index = {[rule_id |-> i, rule_text |-> rules[i].rule_text] : i \in ActiveIds(rules)}
    /\ embedding_service = "ready"
    /\ submissions = <<>>
    /\ violations = <<>>
    /\ resp = NoResp
    /\ io = NoIo
    /\ replay = {}
    /\ call = NoCall
    /\ sessions = [e \in Editors |-> IdleSession]

Generate ==
    \E before_ok \in BOOLEAN :
      \E generated \in (IF before_ok THEN Contents \cup {"raise"} ELSE {"raise"}) :
        \E after_ok \in Either(before_ok /\ generated # "raise") :
          LET checked == before_ok /\ generated # "raise" /\ after_ok
          IN  \E load_ok \in Either(checked /\ ActiveIds(rules) # {}) :
                \E order \in (IF checked /\ load_ok THEN Orderings(ActiveIds(rules)) ELSE {<<>>}),
                   reload_ok \in {load_ok},
                   review \in (IF checked THEN ReviewerOutcomes ELSE {"raise"}),
                   store_ok \in Either(checked), update_ok \in Either(checked),
                   audit_ok \in Either(checked) :
                    GenerateCompliantContent(before_ok, generated, after_ok, order, load_ok,
                                             reload_ok, review, store_ok, update_ok, audit_ok)
Recheck ==
    \E submission_id \in 1..Len(submissions) :
      \E generated_content \in {submissions[submission_id].generated_content} \cap Contents,
         load_ok \in Either(ActiveIds(rules) # {}) :
        \E order \in (IF load_ok THEN Orderings(ActiveIds(rules)) ELSE {<<>>}),
           reload_ok \in {load_ok},
           review \in ReviewerOutcomes, store_ok, update_ok \in BOOLEAN :
            CheckContentCompliance(submission_id, generated_content, order, load_ok,
                                   reload_ok, review, store_ok, update_ok)

Next == RetireRule \/ Generate \/ Recheck
Spec == InitPipeline /\ [][Next]_vars

(***************************************************************************)
(* The Enforcement Policy called directly, on every list of violations the *)
(* detector can report for the texts of the model.                         *)
(***************************************************************************)
RuleInputs ==
    {[NewRule(<<>>, text, severity, 1, 0) EXCEPT !.id = id] :
        id \in 1..2, text \in RuleTexts, severity \in {"hard", "soft"}}

ViolationInputs ==
    {CheckSingleRule(x[1], x[2])[1] :
        x \in {y \in Contents \X RuleInputs : CheckSingleRule(y[1], y[2]) # <<>>}}

ListsUpTo(S, n) == UNION {[1..k -> S] : k \in 0..n}

EnforceCall ==
    \E content \in Contents, found \in ListsUpTo(ViolationInputs, MaxListLen) :
        /\ call' = [fn |-> "enforce_hard_rules", content |-> content, violations |-> found,
                    returned |-> EnforceHardRules(content, found)]
        /\ UNCHANGED <<rules, index, embedding_service, submissions, violations, resp, io,
                       replay, sessions>>

NextEnforce == EnforceCall
SpecEnforce == Init /\ [][NextEnforce]_vars

(***************************************************************************)
(* The Violation Detector and the Enforcement Policy invoked as steps 1    *)
(* and 4 of check_compliance invoke them, time and again, while rules are  *)
(* retired: check_violations loads the active rules itself, in the order   *)
(* the store returns them or not at all when the query raises, and         *)
(* enforce_hard_rules decides on what it found.                            *)
(***************************************************************************)
DetectAndEnforce(content, order, load_ok) ==
    LET found == CheckViolations(content, GetActiveRules(rules, order, load_ok))
    IN  /\ call' = [fn |-> "check_violations", content |-> content,
                    active |-> {rules[i] : i \in ActiveIds(rules)},
                    violations |-> found,
                    returned |-> EnforceHardRules(content, found)]
        /\ UNCHANGED <<rules, index, embedding_service, submissions, violations, resp, io,
                       replay, sessions>>

Detect ==
    \E content \in Contents, load_ok \in Either(ActiveIds(rules) # {}) :
        \E order \in (IF load_ok THEN Orderings(ActiveIds(rules)) ELSE {<<>>}) :
            DetectAndEnforce(content, order, load_ok)

NextDetect == Detect \/ RetireRule
SpecDetect == InitPipeline /\ [][NextDetect]_vars

(***************************************************************************)
(* The Violation Detector on rule texts of every shape and on contents     *)
(* that are empty, blank or hold several terms: check_violations is called *)
(* time and again on a store of active rules, some of which are retired in *)
(* between.                                                                *)
(***************************************************************************)
\* every rule HARD, so that each violation found decides the outcome
TermRules ==
    UNION {[1..k -> TermRuleTexts \X {"hard"}] : k \in 1..MaxListLen}

InitTerms ==
    /\ \E seed \in TermRules :
          rules = [i \in 1..Len(seed) |->
                      [NewRule(<<>>, seed[i][1], seed[i][2], 1, 0) EXCEPT !.id = i]]
    /\ index = {[rule_id |-> i, rule_text |-> rules[i].rule_text] : i \in ActiveIds(rules)}
    /\ embedding_service = "ready"
    /\ submissions = <<>>
    /\ violations = <<>>
    /\ resp = NoResp
    /\ io = NoIo
    /\ replay = {}
    /\ call = NoCall
    /\ sessions = [e \in Editors |-> IdleSession]

DetectTerms ==
    \E content \in TermContents, load_ok \in Either(ActiveIds(rules) # {}) :
        \E order \in (IF load_ok THEN Orderings(ActiveIds(rules)) ELSE {<<>>}) :
            DetectAndEnforce(content, order, load_ok)

NextTerms == DetectTerms \/ RetireRule
SpecTerms == InitTerms /\ [][NextTerms]_vars

(***************************************************************************)
(* The life of a submission as other requests can see it. A generate       *)
(* request commits its submission row (agent.py 46-54) before it awaits    *)
(* the web search and does the rest of its work, so the row is visible in  *)
(* the state it was created in; the request then runs to its end. Rules    *)
(* are retired and finished submissions checked again meanwhile.           *)
(***************************************************************************)
\* generate_compliant_content up to db.refresh(submission)
AcceptSubmission ==
    /\ call = NoCall
    /\ Len(submissions) < MaxSubs
    /\ submissions' = Append(submissions, NewSubmission(submissions))
    /\ call' = [fn |-> "generate", submission_id |-> Len(submissions) + 1]
    /\ UNCHANGED <<rules, index, embedding_service, violations, resp, io, replay, sessions>>

Work ==
    /\ call.fn = "generate"
    /\ call' = NoCall
    /\ UNCHANGED sessions
    /\ \E before_ok \in BOOLEAN :
         \E generated \in (IF before_ok THEN Contents \cup {"raise"} ELSE {"raise"}) :
           \E after_ok \in Either(before_ok /\ generated # "raise") :
             LET checked == before_ok /\ generated # "raise" /\ after_ok
             IN  \E load_ok \in Either(checked /\ ActiveIds(rules) # {}) :
                   \E order \in (IF checked /\ load_ok THEN Orderings(ActiveIds(rules)) ELSE {<<>>}),
                      reload_ok \in Reloads(checked, load_ok),
                      review \in (IF checked THEN ReviewerOutcomes ELSE {"raise"}),
                      store_ok \in Either(checked), update_ok \in Either(checked),
                      audit_ok \in Either(checked) :
                       ProcessSubmission(submissions, call.submission_id, before_ok, generated,
                                         after_ok, order, load_ok, reload_ok, review, store_ok,
                                         update_ok, audit_ok)

NextLifecycle == AcceptSubmission \/ Work \/ Recheck \/ RetireRule
SpecLifecycle == InitPipeline /\ [][NextLifecycle]_vars

(***************************************************************************)
(* Every operation that writes to the relational store, side by side:      *)
(* rules are created, force-created, revised and deactivated (the index    *)
(* healthy) while submissions are generated, checked and checked again.    *)
(***************************************************************************)
HistoryTextInputs == {RuleRequire, RuleBlank}

\* one HARD prohibition is in force when the first submission arrives
InitHistory ==
    /\ rules = <<NewRule(<<>>, RuleProhibit, "hard", 1, 0)>>
    /\ index = {[rule_id |-> 1, rule_text |-> RuleProhibit]}
    /\ embedding_service = "ready"
    /\ submissions = <<>>
    /\ violations = <<>>
    /\ resp = NoResp
    /\ io = NoIo
    /\ replay = {}
    /\ call = NoCall
    /\ sessions = [e \in Editors |-> IdleSession]

ProposeRule ==
    \E text \in HistoryTextInputs :
        /\ CreateRule(text, "HARD", TRUE, TRUE, TRUE)
        /\ Len(rules') <= MaxIndexed
ConfirmRule ==
    \E text \in HistoryTextInputs :
        /\ ForceCreateRule(text, "HARD", TRUE, TRUE)
        /\ Len(rules') <= MaxIndexed
RewordRule ==
    \E rule_id \in RuleIdInputs, text \in HistoryTextInputs :
        /\ UpdateRule(rule_id, text, TRUE, TRUE, TRUE)
        /\ Len(rules') <= MaxIndexed

\* a generate request whose collaborators work, but for the two commits of
\* the check
Submit ==
    \E generated \in Contents, order \in Orderings(ActiveIds(rules)) :
        \E store_ok, update_ok \in BOOLEAN :
            GenerateCompliantContent(TRUE, generated, TRUE, order, TRUE, TRUE, ReviewNone,
                                     store_ok, update_ok, TRUE)
CheckAgain ==
    \E submission_id \in 1..Len(submissions) :
      \E generated_content \in {submissions[submission_id].generated_content} \cap Contents,
         order \in Orderings(ActiveIds(rules)), store_ok, update_ok \in BOOLEAN :
            CheckContentCompliance(submission_id, generated_content, order, TRUE, TRUE,
                                   ReviewNone, store_ok, update_ok)

NextHistory == ProposeRule \/ ConfirmRule \/ RewordRule \/ RetireRule \/ Submit \/ CheckAgain
SpecHistory == InitHistory /\ [][NextHistory]_vars

(***************************************************************************)
(* Revise requests in flight beside readers of the Rule Store. Each editor *)
(* runs update_rule in its own database session: it loads the rule and     *)
(* stages the deactivation and the new row, and later commits; a commit    *)
(* that fails discards the session's changes. Readers (the rule listing,   *)
(* the active-rule load of a compliance check) run between these steps and *)
(* read the committed rows. The index is healthy.                          *)
(***************************************************************************)
\* a revise, were the deactivation written through before the commit
WriteThrough(rs, rule_id) == [rs EXCEPT ![rule_id].is_active = FALSE]

\* sessionmaker(autocommit=False, autoflush=False): old_rule.is_active = False
\* stays in the editor's session; the committed rows are as they were
PendingWrite(rs, rule_id) == rs

ConcTextInputs == {RuleOther, RuleBlank}

\* update_rule up to db.add(new_rule)
StageRevise(e, rule_id, text) ==
    /\ sessions[e].pc = "idle"
    /\ UNCHANGED <<index, embedding_service, submissions, violations, io, replay, call>>
    /\ IF IsBlankText(text)
       THEN /\ resp' = Response("update_rule", 400, "validation_error", rule_id, text)
            /\ UNCHANGED <<rules, sessions>>
       ELSE IF rule_id \notin 1..Len(rules)
       THEN /\ resp' = Response("update_rule", 404, "not_found", rule_id, text)
            /\ UNCHANGED <<rules, sessions>>
       ELSE /\ rules' = PendingWrite(rules, rule_id)
            /\ sessions' = [sessions EXCEPT ![e] =
                               [pc |-> "staged", rule_id |-> rule_id, rule_text |-> text,
                                old_rule |-> rules[rule_id]]]
            /\ UNCHANGED resp

\* update_rule from db.commit() on
CommitRevise(e, commit_ok) ==
    LET s == sessions[e]
        committed == Revised(rules, s.rule_id, s.rule_text, s.old_rule)
        new_rule == committed[Len(committed)]
    IN  /\ s.pc = "staged"
        /\ UNCHANGED <<embedding_service, submissions, violations, io, replay, call>>
        /\ sessions' = [sessions EXCEPT ![e] = IdleSession]
        /\ IF commit_ok
           THEN /\ Len(rules) < MaxRules
                /\ rules' = committed
                /\ index' = StoreRuleEmbedding(DeleteRuleEmbedding(index, s.rule_id, TRUE),
                                               new_rule.id, new_rule.rule_text, TRUE)
                /\ resp' = [Response("update_rule", 200, "success", new_rule.id, s.rule_text)
                                EXCEPT !.old_rule_id = s.rule_id]
           ELSE /\ resp' = Response("update_rule", 500, "error", s.rule_id, s.rule_text)
                /\ UNCHANGED <<rules, index>>

\* GET /rules: the rows newest first
GetAllRules(include_inactive) ==
    LET kept == SelectSeq(rules, LAMBDA r : include_inactive \/ r.is_active)
        listed == [i \in 1..Len(kept) |-> kept[Len(kept) + 1 - i]]
    IN  /\ resp' = [Response("get_all_rules", 200, "success", 0, "")
                        EXCEPT !.result = [include_inactive |-> include_inactive, rules |-> listed]]
        /\ UNCHANGED <<rules, index, embedding_service, submissions, violations, io, replay,
                       call, sessions>>

\* the active-rule load of a compliance check
LoadActiveRules(order) ==
    /\ call' = [fn |-> "get_active_rules", returned |-> GetActiveRules(rules, order, TRUE)]
    /\ UNCHANGED <<rules, index, embedding_service, submissions, violations, resp, io,
                   replay, sessions>>

InitConc ==
    /\ rules \in {rs \in SeededRules : \A i \in 1..Len(rs) : rs[i].is_active}
    /\ index = {[rule_id |-> i, rule_text |-> rules[i].rule_text] : i \in ActiveIds(rules)}
    /\ embedding_service = "ready"
    /\ submissions = <<>>
    /\ violations = <<>>
    /\ resp = NoResp
    /\ io = NoIo
    /\ replay = {}
    /\ call = NoCall
    /\ sessions = [e \in Editors |-> IdleSession]

Stage == \E e \in Editors, rule_id \in RuleIdInputs, text \in ConcTextInputs : StageRevise(e, rule_id, text)
Commit == \E e \in Editors, commit_ok \in BOOLEAN : CommitRevise(e, commit_ok)
List == \E include_inactive \in BOOLEAN : GetAllRules(include_inactive)
Load == \E order \in Orderings(ActiveIds(rules)) : LoadActiveRules(order)

NextConc == Stage \/ Commit \/ List \/ Load
SpecConc == InitConc /\ [][NextConc]_vars

(***************************************************************************)
(* Create and force-create requests in flight together. Each author's      *)
(* request runs in its own database session: it validates the text, runs   *)
(* the duplicate query (and, for a plain create, the similarity query) on  *)
(* the committed rows, and later inserts and commits its row. The Rule     *)
(* table declares no unique constraint (models.py 52-69), so the commit    *)
(* checks nothing. The index is healthy.                                   *)
(***************************************************************************)
RaceTextInputs == {RuleProhibit, RuleOther, RuleBlank}

\* create_rule up to the similarity gate (lines 50-85), force_create_rule up
\* to the duplicate check (lines 146-164)
BeginCreate(e, op, text, severity_in) ==
    LET similar_rules == FindSimilarRules(index, text, TopK, SimilarityThreshold, TRUE)
    IN  /\ sessions[e].pc = "idle"
        /\ UNCHANGED <<rules, index, submissions, violations, io, replay, call>>
        /\ IF IsBlankText(text)
           THEN /\ resp' = Response(op, 400, "validation_error", 0, text)
                /\ UNCHANGED <<embedding_service, sessions>>
           ELSE IF ExistsActiveText(rules, text)
           THEN /\ resp' = Response(op, 400, "duplicate_error", 0, text)
                /\ UNCHANGED <<embedding_service, sessions>>
           ELSE IF op = "create_rule" /\ similar_rules # {}
           THEN /\ resp' = Response(op, 200, "warning", 0, text)
                /\ embedding_service' = GetEmbeddingService(embedding_service, TRUE)
                /\ UNCHANGED sessions
           ELSE /\ sessions' = [sessions EXCEPT ![e] =
                                   [pc |-> "checked", op |-> op, rule_id |-> 0,
                                    rule_text |-> text,
                                    severity |-> ParseSeverity(severity_in),
                                    old_rule |-> NULL]]
                /\ embedding_service' =
                       IF op = "create_rule"
                       THEN GetEmbeddingService(embedding_service, TRUE)
                       ELSE embedding_service
                /\ UNCHANGED resp

\* create_rule from db.add(new_rule) on (lines 87-132), force_create_rule
\* likewise (lines 166-210)
FinishCreate(e, commit_ok) ==
    LET s == sessions[e]
        new_rule == NewRule(rules, s.rule_text, s.severity, 1, 0)
    IN  /\ s.pc = "checked"
        /\ UNCHANGED <<submissions, violations, io, replay, call>>
        /\ sessions' = [sessions EXCEPT ![e] = IdleSession]
        /\ IF commit_ok
           THEN /\ Len(rules) < MaxRules
                /\ rules' = Append(rules, new_rule)
                /\ embedding_service' = GetEmbeddingService(embedding_service, TRUE)
                /\ index' = StoreRuleEmbedding(index, new_rule.id, new_rule.rule_text, TRUE)
                /\ resp' = Response(s.op, 200, "success", new_rule.id, s.rule_text)
           ELSE /\ resp' = Response(s.op, 500, "error", 0, s.rule_text)
                /\ UNCHANGED <<rules, index, embedding_service>>

Begin ==
    \E e \in Editors, op \in {"create_rule", "force_create_rule"} :
        \E text \in RaceTextInputs, severity_in \in SeverityInputs :
            BeginCreate(e, op, text, severity_in)
Finish == \E e \in Editors, commit_ok \in BOOLEAN : FinishCreate(e, commit_ok)

NextRace == Begin \/ Finish
SpecRace == Init /\ [][NextRace]_vars

(***************************************************************************)
(* Properties.                                                             *)
(***************************************************************************)
Range(seq) == {seq[i] : i \in 1..Len(seq)}

\* the first version of the chain a rule belongs to, following parent_rule_id
RECURSIVE Root(_, _)
Root(rs, i) == IF rs[i].parent_rule_id = 0 THEN i ELSE Root(rs, rs[i].parent_rule_id)

CheckRan == io.update # "not_called"

\* C1: for every list of violations passed to enforce_hard_rules, the returned
\* approval flag is false if and only if the list holds at least one violation
\* of severity HARD; SOFT violations, however many, never change the flag.
C1_HardViolationBlocks ==
    call.fn = "enforce_hard_rules" =>
        /\ call.returned.is_approved \in BOOLEAN
        /\ (call.returned.is_approved = FALSE) <=>
               (\E i \in 1..Len(call.violations) : call.violations[i].severity = "hard")

\* a call whose list holds a SOFT and a HARD violation, and one blocked
C1_Witness ==
    /\ call.fn = "enforce_hard_rules"
    /\ \E i \in 1..Len(call.violations) : call.violations[i].severity = "soft"
    /\ \E i \in 1..Len(call.violations) : call.violations[i].severity = "hard"
    /\ ~call.returned.is_approved

\* what a finished check decided and left in the store
Actual ==
    [is_approved |-> resp.result.is_approved,
     decision_reason |-> resp.result.decision_reason,
     rule_violations |-> resp.result.rule_violations,
     violations |-> violations,
     submission |-> submissions[resp.id]]

\* C2: runs of check_compliance on the same content and the same active rules
\* that differ only in what the advisory reviewer returns (any opinion, or a
\* failure) agree on is_approved, decision_reason, rule_violations, the
\* persisted Violation rows and the resulting Submission: the check that ran
\* and its re-runs under every reviewer outcome left one and the same outcome.
C2_ReviewerNonInterference == CheckRan => replay = {Actual}

\* the reviewer flagged a violation and the content was approved all the same
C2_Witness ==
    /\ CheckRan
    /\ io.reviewer = "ok"
    /\ resp.result.ai_review.violations # <<>>
    /\ resp.result.is_approved
    /\ submissions[resp.id].status = "approved"

\* C3: when the reviewer call fails during check_compliance the check still
\* returns: the decision is the rule-based one (the detector's violations for
\* the stored active rules, approved exactly when none is HARD), the violation
\* rows are written and the submission moved as far as the database allows,
\* and ai_review is the placeholder opinion with an empty violations list.
C3_ReviewerFailureSwallowed ==
    io.reviewer = "raised" =>
        LET result == resp.result
            found == result.rule_violations
            n == Len(found)
        IN  /\ CheckRan
            /\ result.ai_review = PlaceholderReview
            /\ result.ai_review.violations = <<>>
            /\ \E load_ok \in BOOLEAN :
                 \E order \in (IF load_ok THEN Orderings(ActiveIds(rules)) ELSE {<<>>}) :
                    found = CheckViolations(resp.text, GetActiveRules(rules, order, load_ok))
            /\ result.is_approved <=> (\A i \in 1..n : found[i].severity # "hard")
            /\ io.store = "ok" =>
                 /\ Len(violations) >= n
                 /\ \A i \in 1..n :
                      violations[Len(violations) - n + i] = ViolationRow(resp.id, found[i])
            /\ io.update = "ok" =>
                 submissions[resp.id].status =
                     (IF result.is_approved THEN "approved" ELSE "rejected")

\* the reviewer raised, and the check rejected, stored its rows and moved the
\* submission
C3_Witness ==
    /\ io.reviewer = "raised"
    /\ io.store = "ok"
    /\ io.update = "ok"
    /\ ~resp.result.is_approved
    /\ submissions[resp.id].status = "rejected"

TerminalStatuses == {"approved", "rejected", "failed"}

\* C4: once a submission's status is APPROVED, REJECTED or FAILED, no later
\* operation changes it, a second check_content_compliance call on the same
\* submission under a changed rule set included.
C4_TerminalStatusKept ==
    [][\A i \in 1..Len(submissions) :
          submissions[i].status \in TerminalStatuses =>
              submissions'[i].status = submissions[i].status]_vars

\* C5: whenever check_compliance returns a result, the stored submission has
\* status APPROVED if is_approved and REJECTED otherwise, the matching
\* compliance_status, completed_at set and generated_content equal to the
\* checked text.
C5_SubmissionMatchesResult ==
    CheckRan =>
        LET submission == submissions[resp.id]
            decided == IF resp.result.is_approved THEN "approved" ELSE "rejected"
        IN  /\ submission.status = decided
            /\ submission.compliance_status = decided
            /\ submission.completed_at = "set"
            /\ submission.generated_content = resp.text

C7_ExactlyOneActivePerChain ==
    \A i \in 1..Len(rules) :
        Cardinality({j \in 1..Len(rules) :
                        Root(rules, j) = Root(rules, i) /\ rules[j].is_active}) = 1

\* C8: a successful revise of rule R leaves R inactive and adds one new rule N
\* with N.version = R.version + 1, N.parent_rule_id = R.id, N.severity =
\* R.severity and N.is_active; no other rule row is changed.
C8_ReviseEffect ==
    [][(resp'.op = "update_rule" /\ resp'.status = "success") =>
          LET r == resp'.old_rule_id
              n == resp'.id
          IN  /\ r \in 1..Len(rules)
              /\ Len(rules') = Len(rules) + 1
              /\ n = Len(rules')
              /\ rules'[r] = [rules[r] EXCEPT !.is_active = FALSE]
              /\ rules'[n].is_active
              /\ rules'[n].version = rules[r].version + 1
              /\ rules'[n].parent_rule_id = rules[r].id
              /\ rules'[n].severity = rules[r].severity
              /\ rules'[n].rule_text = resp'.text
              /\ \A i \in 1..Len(rules) : i # r => rules'[i] = rules[i]]_vars

\* a HARD rule at version 2 or later was revised beside an active rule of
\* another chain
C8_Witness ==
    /\ resp.op = "update_rule"
    /\ resp.status = "success"
    /\ rules[resp.id].version >= 2
    /\ rules[resp.id].severity = "hard"
    /\ ~rules[resp.old_rule_id].is_active
    /\ \E i \in 1..Len(rules) :
         /\ i \notin {resp.id, resp.old_rule_id}
         /\ rules[i].is_active
         /\ Root(rules, i) # Root(rules, resp.id)

\* an inactive rule among rows has its successor version among them
NoOrphan(rows) ==
    \A r \in rows : ~r.is_active => \E n \in rows : n.parent_rule_id = r.id

\* every chain has an active rule among rows
EveryChainActive(rows) ==
    \A i \in 1..Len(rules) : \E r \in rows : r.is_active /\ Root(rules, r.id) = Root(rules, i)

\* C9: revise is atomic to every observer: neither the committed rows after
\* any step (a failed commit included), nor a rule listing, nor the active-rule
\* load of a compliance check ever shows an old rule deactivated without its
\* successor version.
C9_ReviseAtomic ==
    /\ NoOrphan(Range(rules))
    /\ EveryChainActive(Range(rules))
    /\ resp.op = "get_all_rules" =>
         /\ resp.result.include_inactive => NoOrphan(Range(resp.result.rules))
         /\ EveryChainActive(Range(resp.result.rules))
    /\ call.fn = "get_active_rules" => EveryChainActive(Range(call.returned))

\* a check loaded the active rules while a revise of one of them was staged
\* and another revise had been committed
C9_Witness ==
    /\ call.fn = "get_active_rules"
    /\ \E e \in Editors :
         /\ sessions[e].pc = "staged"
         /\ \E i \in 1..Len(call.returned) : call.returned[i].id = sessions[e].rule_id
    /\ \E i \in 1..Len(rules) : ~rules[i].is_active

\* the text of a create response names a rule that was deactivated: a row has
\* it, no active row has it
Deactivated(text) ==
    /\ \E i \in 1..Len(rules) : rules[i].rule_text = text /\ ~rules[i].is_active
    /\ \A i \in 1..Len(rules) : rules[i].rule_text = text => ~rules[i].is_active

\* the create added one active rule at version 1 with the text
AddedFirstVersion(text) ==
    /\ Len(rules') = Len(rules) + 1
    /\ SubSeq(rules', 1, Len(rules)) = rules
    /\ rules'[Len(rules')].rule_text = text
    /\ rules'[Len(rules')].is_active
    /\ rules'[Len(rules')].version = 1
    /\ rules'[Len(rules')].parent_rule_id = 0

DuplicateRejected ==
    (\E i \in 1..Len(rules) : rules[i].rule_text = resp'.text /\ rules[i].is_active) =>
        /\ resp'.status = "duplicate_error"
        /\ resp'.code = 400
        /\ rules' = rules

C11_NoTwoActiveSameText ==
    \A i, j \in 1..Len(rules) :
        (i # j /\ rules[i].is_active /\ rules[j].is_active) =>
            rules[i].rule_text # rules[j].rule_text

\* C12: deactivate is idempotent on the Rule Store: for an existing rule every
\* call succeeds and leaves the row inactive and every other row as it was, so
\* a second call changes no row at all; for an unknown rule_id the call fails
\* with a not-found error and changes no row.
C12_DeactivateIdempotent ==
    [][resp'.op = "deactivate_rule" =>
          IF resp'.id \in 1..Len(rules)
          THEN /\ resp'.status = "success"
               /\ rules' = [rules EXCEPT ![resp'.id].is_active = FALSE]
               /\ ~rules[resp'.id].is_active => rules' = rules
          ELSE /\ resp'.status = "not_found"
               /\ resp'.code = 404
               /\ rules' = rules]_vars

StoreOps == {"create_rule", "force_create_rule", "update_rule", "deactivate_rule"}

\* the rule_id a revise or deactivate request named
Requested == IF resp'.op = "update_rule" /\ resp'.status = "success" THEN resp'.old_rule_id ELSE resp'.id

\* what the Rule Store answers to the request of this step when every call
\* into the Similarity Index works
HealthyStatus ==
    IF resp'.op \in {"create_rule", "force_create_rule", "update_rule"} /\ IsBlankText(resp'.text)
    THEN "validation_error"
    ELSE IF resp'.op \in {"create_rule", "force_create_rule"} /\ ExistsActiveText(rules, resp'.text)
    THEN "duplicate_error"
    ELSE IF resp'.op \in {"update_rule", "deactivate_rule"} /\ Requested \notin 1..Len(rules)
    THEN "not_found"
    ELSE IF /\ resp'.op = "create_rule"
            /\ \E e \in index : Score(resp'.text, e.rule_text) >= SimilarityThreshold
    THEN "warning"
    ELSE "success"

\* the rule rows such a request leaves
HealthyRows ==
    IF HealthyStatus # "success" THEN rules' = rules
    ELSE IF resp'.op = "deactivate_rule"
    THEN rules' = [rules EXCEPT ![Requested].is_active = FALSE]
    ELSE IF resp'.op = "update_rule"
    THEN /\ Len(rules') = Len(rules) + 1
         /\ rules'[Requested] = [rules[Requested] EXCEPT !.is_active = FALSE]
         /\ rules'[Len(rules')].rule_text = resp'.text
         /\ rules'[Len(rules')].parent_rule_id = Requested
         /\ rules'[Len(rules')].is_active
    ELSE AddedFirstVersion(resp'.text)

\* C13: for create, force-create, revise and deactivate a failure of the
\* Similarity Index (store, delete, query, or obtaining the index client)
\* never reaches the caller and never changes the Rule Store outcome: the
\* response status and the resulting rule rows are those of the same request
\* with a healthy index.
C13_IndexFailureInvisible ==
    [][resp'.op \in StoreOps =>
          /\ resp'.status = HealthyStatus
          /\ resp'.code # 500
          /\ HealthyRows]_vars

\* C14: force-create skips the similarity gate: it adds the rule (active, at
\* version 1) whenever the text is non-blank and no active rule has
\* byte-identical text, whatever the Similarity Index holds, and adds nothing
\* otherwise; a plain create whose similarity query reports an entry at or
\* above the threshold adds no rule and returns a warning.
C14_ForceCreateSkipsGate ==
    [][/\ resp'.op = "force_create_rule" =>
            IF IsBlankText(resp'.text)
            THEN resp'.status = "validation_error" /\ rules' = rules
            ELSE IF \E i \in 1..Len(rules) : rules[i].rule_text = resp'.text /\ rules[i].is_active
            THEN resp'.status = "duplicate_error" /\ rules' = rules
            ELSE /\ AddedFirstVersion(resp'.text)
                 /\ resp'.status \in {"success", "error"}
                 /\ resp'.status # "warning"
                 /\ resp'.status = "error" => embedding_service = "none"
       /\ (/\ resp'.op = "create_rule"
           /\ io'.query = "ok"
           /\ \E e \in index : Score(resp'.text, e.rule_text) >= SimilarityThreshold) =>
              /\ resp'.status = "warning"
              /\ rules' = rules]_vars

\* a force-create went through although the index holds an entry of another
\* rule that scores at or above the threshold against its text
C14_Witness ==
    /\ resp.op = "force_create_rule"
    /\ resp.status = "success"
    /\ rules[resp.id].rule_text = resp.text
    /\ rules[resp.id].is_active
    /\ \E e \in index :
         /\ e.rule_id # resp.id
         /\ Score(resp.text, e.rule_text) >= SimilarityThreshold

\* C15: two invocations of the detector and the enforcement policy on the same
\* generated_content and the same set of active rules return the same
\* violation list (same elements in the same order) and the same approval flag
\* and reason, whatever order the store returns the rules in and whatever
\* happened between the two invocations.
C15_Deterministic ==
    [][(/\ call.fn = "check_violations"
        /\ call'.fn = "check_violations"
        /\ call'.content = call.content
        /\ call'.active = call.active) =>
           /\ call'.violations = call.violations
           /\ call'.returned = call.returned]_vars

\* C16: after check_compliance returns, the Violation rows that check wrote
\* for the submission are one row per violation candidate, all of them, or
\* none at all, never a strict subset; and when the write fails the returned
\* is_approved and decision_reason are what they are when it succeeds: the
\* decision on the candidates found.
C16_ViolationsAllOrNone ==
    [][io'.update # "not_called" =>
          LET found == resp'.result.rule_violations
              added == SubSeq(violations', Len(violations) + 1, Len(violations'))
              every == [i \in 1..Len(found) |-> ViolationRow(resp'.id, found[i])]
          IN  /\ Len(violations') >= Len(violations)
              /\ SubSeq(violations', 1, Len(violations)) = violations
              /\ added \in {<<>>, every}
              /\ io'.store = "ok" => added = every
              /\ io'.store = "failed" => added = <<>>
              /\ resp'.result.is_approved <=>
                     (\A i \in 1..Len(found) : found[i].severity # "hard")
              /\ resp'.result.decision_reason = EnforceHardRules(resp'.text, found).reason]_vars

\* the write of two candidates failed: no row was written and the content was
\* rejected all the same
C16_Witness ==
    /\ io.store = "failed"
    /\ Len(resp.result.rule_violations) = 2
    /\ \A k \in 1..Len(violations) : violations[k].submission_id # resp.id
    /\ ~resp.result.is_approved
    /\ resp.result.decision_reason # "No HARD rule violations"

\* C17: history is retained: no operation (create, force-create, revise,
\* deactivate, compliance check) removes a Rule row or removes or modifies an
\* already written Violation row, so every Violation keeps referring to an
\* existing rule and keeps its recorded severity, text and context after that
\* rule is deactivated or revised.
C17_HistoryRetained ==
    [][/\ Len(rules') >= Len(rules)
       /\ \A i \in 1..Len(rules) :
            /\ rules'[i].id = rules[i].id
            /\ rules'[i].rule_text = rules[i].rule_text
            /\ rules'[i].severity = rules[i].severity
            /\ rules'[i].version = rules[i].version
       /\ Len(violations') >= Len(violations)
       /\ \A k \in 1..Len(violations) : violations'[k] = violations[k]
       /\ \A k \in 1..Len(violations') :
            /\ violations'[k].rule_id \in 1..Len(rules')
            /\ rules'[violations'[k].rule_id].id = violations'[k].rule_id]_vars

\* a violation row is still there, unchanged in what it records, after its
\* rule was deactivated and the submission was checked again
C17_Witness ==
    /\ resp.op = "check"
    /\ \E k \in 1..Len(violations) :
         /\ violations[k].submission_id = resp.id
         /\ ~rules[violations[k].rule_id].is_active
         /\ violations[k].severity = "hard"
         /\ violations[k].context # ""
         /\ \A v \in Range(resp.result.rule_violations) : v.rule_id # violations[k].rule_id

\* C18: every failure inside the compliance pipeline of a generate request
\* (loading rules, persisting violations, updating the submission status) ends
\* either with the submission in a terminal status or with an error raised to
\* the direct caller: no generate request answers normally while its
\* submission is left in PROCESSING.
C18_NoNormalResultWhileProcessing ==
    (resp.op = "generate" /\ resp.code = 200) =>
        submissions[resp.id].status \in TerminalStatuses

\* C19: every submission's status history starts in PENDING and moves to
\* PROCESSING before any terminal status: a submission row appears in PENDING,
\* and the only status transitions that ever occur are PENDING to PROCESSING
\* and PROCESSING to one of APPROVED, REJECTED, FAILED.
C19_StatusHistory ==
    [][\A i \in 1..Len(submissions') :
          IF i > Len(submissions)
          THEN submissions'[i].status = "pending"
          ELSE \/ submissions'[i].status = submissions[i].status
               \/ /\ submissions[i].status = "pending"
                  /\ submissions'[i].status = "processing"
               \/ /\ submissions[i].status = "processing"
                  /\ submissions'[i].status \in TerminalStatuses]_vars

\* the content holds, case-insensitively, a quoted term of a rule text that
\* states a prohibition ("must not", "prohibited")
ForbiddenHit ==
    [content \in Contents, rule_text \in RuleTexts |->
        /\ \/ Contains(Lower(rule_text), "must not")
           \/ Contains(Lower(rule_text), "prohibited")
        /\ \E term \in Range(QuotedTerms(rule_text)) :
             Contains(Lower(content), Lower(term))]

\* C20: for every active HARD prohibition rule and every text that contains,
\* case-insensitively, one of that rule's forbidden terms, the check reports a
\* violation for that rule, the decision is approved = false, and the decision
\* reason contains that rule's text.
C20_HardProhibitionBlocks ==
    CheckRan =>
        \A i \in 1..Len(rules) :
            (/\ rules[i].is_active
             /\ rules[i].severity = "hard"
             /\ ForbiddenHit[resp.text, rules[i].rule_text]) =>
                /\ \E v \in Range(resp.result.rule_violations) : v.rule_id = rules[i].id
                /\ resp.result.is_approved = FALSE
                /\ Contains(resp.result.decision_reason, rules[i].rule_text)

\* the quoted terms of a rule text the detector treats as an obligation (it
\* says "must include" or "required" and carries no prohibition wording)
RequiredOf ==
    [rule_text \in RuleTexts \cup TermRuleTexts |->
        IF /\ ~Contains(Lower(rule_text), "must not")
           /\ ~Contains(Lower(rule_text), "prohibited")
           /\ \/ Contains(Lower(rule_text), "must include")
              \/ Contains(Lower(rule_text), "required")
        THEN Range(QuotedTerms(rule_text))
        ELSE {}]

\* the required terms of a rule text that a content lacks, case-insensitively
MissingFrom ==
    [content \in Contents \cup TermContents, rule_text \in RuleTexts \cup TermRuleTexts |->
        {term \in RequiredOf[rule_text] : ~Contains(Lower(content), Lower(term))}]

\* C21: for every active HARD obligation rule, a text that lacks at least one
\* of the rule's required terms (case-insensitively) gets exactly one violation
\* for that rule, with empty violated_text and a context naming a missing term,
\* and the decision is approved = false; a text that holds every required term
\* gets no violation for that rule.
C21_HardObligationBlocks ==
    CheckRan =>
        \A i \in 1..Len(rules) :
            (/\ rules[i].is_active
             /\ rules[i].severity = "hard"
             /\ RequiredOf[rules[i].rule_text] # {}) =>
                LET found == resp.result.rule_violations
                    mine == {k \in 1..Len(found) : found[k].rule_id = rules[i].id}
                    missing == MissingFrom[resp.text, rules[i].rule_text]
                IN  IF missing # {}
                    THEN /\ Cardinality(mine) = 1
                         /\ \A k \in mine :
                              /\ found[k].violated_text = ""
                              /\ \E term \in missing :
                                   Contains(found[k].context, "'" \o term \o "'")
                         /\ resp.result.is_approved = FALSE
                    ELSE mine = {}

\* C23: in the violation list one check_violations call returns, each rule id
\* appears at most once, however many of the rule's terms occur in the content
\* and however often.
C23_OncePerRule ==
    call.fn = "check_violations" =>
        \A a, b \in 1..Len(call.violations) :
            call.violations[a].rule_id = call.violations[b].rule_id => a = b

\* a call on a content that holds both terms of an active rule, one of them
\* twice, returned a violation for that rule
C23_Witness ==
    /\ call.fn = "check_violations"
    /\ call.content = "xDPx"
    /\ \E v \in Range(call.violations) :
         /\ v.rule_text = RuleBoth
         /\ \A term \in Range(QuotedTerms(RuleBoth)) :
              Contains(Lower(call.content), Lower(term))

\* C24: for empty or whitespace-only content check_violations returns no
\* violation, whatever the active rules are, prohibitions and obligations alike.
C24_BlankContentNoViolations ==
    (call.fn = "check_violations" /\ Strip(call.content) = "") => call.violations = <<>>

\* no usable literal term can be derived from the rule text: it has no quoted
\* substring and, when it is worded as a prohibition, no non-empty item after
\* "such as"
NoUsableTerm ==
    [rule_text \in RuleTexts \cup TermRuleTexts |->
        /\ QuotedTerms(rule_text) = <<>>
        /\ (\/ Contains(Lower(rule_text), "must not")
            \/ Contains(Lower(rule_text), "prohibited")) =>
               LET parts == Split(Lower(rule_text), "such as")
               IN  Len(parts) > 1 =>
                     \A item \in Range(Split(parts[2], ",")) :
                         StripSet(Strip(item), {"\"", "'"}) = ""]

\* C25: a rule from whose text no usable literal term can be derived never
\* yields a violation, for any content, so it never causes a rejection.
C25_NoTermNoViolation ==
    call.fn = "check_violations" =>
        \A v \in Range(call.violations) : ~NoUsableTerm[v.rule_text]

\* the severity a request asks for names a RuleSeverity member
KnownSeverity ==
    [severity_in \in SeverityInputs |-> Upper(severity_in) \in {"HARD", "SOFT"}]

\* C22: malformed rule input is rejected, never silently corrected: a create
\* or force-create whose text is blank or whose severity is neither HARD nor
\* SOFT is answered with a validation error, a revise whose text is blank with
\* a validation error, a revise of an unknown rule_id with a not-found error,
\* and each leaves every rule row as it was.
C22_MalformedInputRejected ==
    [][/\ (/\ resp'.op \in {"create_rule", "force_create_rule"}
           /\ \/ IsBlankText(resp'.text)
              \/ ~KnownSeverity[resp'.severity]) =>
               /\ resp'.status = "validation_error"
               /\ rules' = rules
       /\ (resp'.op = "update_rule" /\ IsBlankText(resp'.text)) =>
               /\ resp'.status = "validation_error"
               /\ rules' = rules
       /\ (/\ resp'.op = "update_rule"
           /\ ~IsBlankText(resp'.text)
           /\ Requested \notin 1..Len(rules)) =>
               /\ resp'.status = "not_found"
               /\ rules' = rules]_vars

\* C26: within one check_compliance run the rules handed to the advisory
\* reviewer are exactly the rules the detector evaluated.
C26_ReviewerSeesEvaluatedRules ==
    CheckRan => {r.id : r \in io.rules_for_ai} = io.evaluated

\* C27: a check whose load of the active rules failed does not return
\* is_approved = true and does not move the submission to APPROVED.
C27_NoApprovalWithoutRules ==
    (CheckRan /\ io.load = "failed") =>
        /\ resp.result.is_approved = FALSE
        /\ submissions[resp.id].status # "approved"

\* C28: when a generate request has finished, whichever of its steps failed,
\* the submission it created is APPROVED, REJECTED or FAILED, never PROCESSING.
C28_FinishedRequestIsTerminal ==
    resp.op = "generate" => submissions[resp.id].status \in TerminalStatuses

\* C29: in every reachable state no version chain holds two active rules and
\* no version chain holds two rules with the same version number.
C29_ChainVersionsUnique ==
    \A i, j \in 1..Len(rules) :
        (i < j /\ Root(rules, i) = Root(rules, j)) =>
            /\ ~(rules[i].is_active /\ rules[j].is_active)
            /\ rules[i].version # rules[j].version

\* C30: after any sequential series of create, force-create, revise and
\* deactivate requests no text is the text of two active rules; a revise to the
\* text of another active rule does not leave a second active rule with it.
C30_ActiveTextsUnique ==
    \A i \in ActiveIds(rules) :
        Cardinality({j \in ActiveIds(rules) : rules[j].rule_text = rules[i].rule_text}) = 1

====
